---- MODULE Spec2Model ----
(***************************************************************************)
(* Model of aiodocker_registry/stats.py (RepoStats): the blob-group key,   *)
(* the parent inference of _get_blob_group_info, and the scan of get_stats *)
(* with its two asyncpool worker pools (_process_image_tag, _process_blob).*)
(* The pagers of get_stats are taken as the list of (image, tag) they      *)
(* yield; asyncpool (a library) is its queue of num_workers places, its    *)
(* num_workers workers, and a join that waits for them and raises when a   *)
(* job raised. The pagers themselves (registry_client.py: _Pager and       *)
(* _S3Pager) have their own specifications, one of a pager and its         *)
(* consumer and one of the two loops of get_stats over them.               *)
(*                                                                         *)
(* Python values: a str is a TLA+ string, a list a sequence, a dict a      *)
(* function whose DOMAIN is the set of keys present (a defaultdict creates *)
(* the entry on first subscript), None is the record None below (or the    *)
(* string NoneKey where the other values are strings).                     *)
(***************************************************************************)
EXTENDS Integers, Sequences, FiniteSets, TLC

VARIABLES
    blob_groups,          \* self._blob_groups: key -> [blobs, images]
    image_info,           \* self._image_info: set of <<image_name, key, tag>>
    info_order,           \* the <<image_name, key>> of image_info in insertion order
    blob_to_image_tags,   \* self._blob_to_image_tags: blob_sum -> [info, usage]
    inprogress_blobs,     \* self._inprogress_blobs
    total_blob_size,      \* self._total_blob_size
    shelf,                \* self._shelf: [open, data]; not open is "self._shelf is None"
    client,               \* "RegistryClient" or "S3RegistryClient"
    num_workers,          \* workers of each pool (their third argument, lines 100-101)
    registry,             \* what the client serves: <<[image_name, tag, manifest], ...>>
    pc,                   \* where get_stats is
    next_tag,             \* index in registry of the next (image, tag) the pagers yield
    img_queue,            \* image_tag_pool's queue: indices in registry
    img_running,          \* image-tag jobs suspended at an await
    blob_queue,           \* blob_pool's queue: [image_name, blob_sum, id]
    blob_running,         \* blob jobs suspended at "await get_blob_info"
    img_exceptions,       \* image_tag_pool: a job raised
    blob_exceptions,      \* blob_pool: a job raised
    blob_pushes,          \* number of blob_pool.push calls so far (the next job's id)
    fetches,              \* blob_sum -> number of get_blob_info calls
    info_writes,          \* blob_sum -> number of assignments to its "info"
    job_log,              \* job -> what its get_image_manifest calls did, in order
    report,               \* aggregation: key -> result of _get_blob_group_info
    img_data,             \* aggregation: image_name -> the rows of its chart
    g_data,               \* aggregation: the rows of the root chart
    key_in,               \* the two digest lists handed to _get_blob_group_key
    key_out,              \* the two keys returned for key_in
    info_out,             \* last call of _get_blob_group_info: [key, result]
    g_instances,          \* _BlobGroupInstanceHelper._instances: name -> next number
    node_names,           \* the calls of new_instance so far: [name, label]
    source,               \* a paged source: [kind, pages, is_tags]
    pager,                \* the fields of the pager over source
    iteration,            \* the iteration of pager under way: [no, calls, yielded,
                          \*   requests, ended, after]
    served,               \* what a registry serves: [catalog, tags] (pages)
    driver                \* lines 103-112 of get_stats: [catalog_pager, tag_pager,
                          \*   image_name, pushed, at]

selfVars == <<blob_groups, image_info, info_order, blob_to_image_tags, inprogress_blobs,
              total_blob_size, shelf>>
poolVars == <<pc, next_tag, img_queue, img_running, blob_queue, blob_running,
              img_exceptions, blob_exceptions, blob_pushes>>
aggVars == <<report, img_data, g_data>>
histVars == <<fetches, info_writes, job_log, aggVars>>
nameVars == <<g_instances, node_names>>
pureVars == <<key_in, key_out, info_out, nameVars>>
pagerVars == <<source, pager, iteration, served, driver>>
vars == <<selfVars, client, registry, num_workers, poolVars, histVars, pureVars,
          pagerVars>>

-----------------------------------------------------------------------------
(* Bounds of the model *)

\* longest digest list of the key and parent-inference specifications
MaxLen == 3
\* most groups registered in the parent-inference specification
MaxGroups == 3
\* most workers of a pool; 100 in get_stats
NumWorkers == 2
\* the capacity of a pool's queue (asyncpool: num_workers * load_factor, and
\* load_factor is 1)
QueueCap == num_workers
\* most pages of a paged source, and most items of a page (batch_size, 100)
MaxPages == 2
MaxItems == 2
\* most __aiter__ calls on one pager, and most __anext__ calls after the
\* end of an iteration
MaxIterations == 2
MaxAfter == 2

-----------------------------------------------------------------------------
(* Python values *)

None == [none |-> TRUE]
NoneKey == "None"

\* seq[i] for a Python index i (0-based, negative counts from the end);
\* the caller checks InRange first (an IndexError otherwise)
PyInRange(seq, i) == -Len(seq) <= i /\ i < Len(seq)
PyIndex(seq, i) == IF i >= 0 THEN seq[i + 1] ELSE seq[Len(seq) + i + 1]

\* seq[:end] for 0 <= end <= len(seq)
PyPrefix(seq, end) == SubSeq(seq, 1, end)

\* list(reversed(seq))
Reversed(seq) == [i \in 1..Len(seq) |-> seq[Len(seq) + 1 - i]]

Range(seq) == {seq[i] : i \in 1..Len(seq)}

\* sep.join(strs)
RECURSIVE JoinWith(_, _)
JoinWith(sep, strs) ==
    IF strs = <<>> THEN ""
    ELSE IF Len(strs) = 1 THEN strs[1]
    ELSE strs[1] \o sep \o JoinWith(sep, Tail(strs))

\* the orders a set of str can be iterated in: the order follows the hashes
\* of the strings, which differ from one process to the next
Orders(S) == {order \in [1..Cardinality(S) -> S] : Range(order) = S}

\* f"{tags}" of a non-empty set of str iterated in the order tag_order
SetRepr(tags, tag_order) ==
    LET in_order == SelectSeq(tag_order, LAMBDA t : t \in tags)
    IN "{" \o JoinWith(", ", [n \in 1..Len(in_order) |-> "'" \o in_order[n] \o "'"]) \o "}"

\* all sequences over S of length 0..n
RECURSIVE SeqsUpTo(_, _)
SeqsUpTo(S, n) ==
    IF n = 0 THEN {<<>>}
    ELSE LET shorter == SeqsUpTo(S, n - 1)
         IN shorter \cup {Append(s, x) : s \in {t \in shorter : Len(t) = n - 1}, x \in S}

-----------------------------------------------------------------------------
(* The registry's blobs: digests ("algorithm:hex", never empty, no '.' in *)
(* them) and the size the registry reports for each.                      *)

Digests == {"sha256:base", "sha256:layerX", "sha256:layerY"}

BlobSize(blob_sum) ==
    CASE blob_sum = "sha256:base" -> 100
      [] blob_sum = "sha256:layerX" -> 50
      [] blob_sum = "sha256:layerY" -> 30
      [] blob_sum = "sha256:A" -> 10
      [] blob_sum = "sha256:B" -> 20

\* the digests of the parent-inference specification (sizes 10 and 20)
InfoDigests == {"sha256:A", "sha256:B"}

-----------------------------------------------------------------------------
(* _get_blob_group_key *)

\* ".".join(blob_group)
RECURSIVE Join(_)
Join(blob_group) ==
    IF blob_group = <<>> THEN ""
    ELSE IF Len(blob_group) = 1 THEN blob_group[1]
    ELSE blob_group[1] \o "." \o Join(Tail(blob_group))

\* a plausible bug: the key of the digests as a set (order and repetition
\* lost), joined in one fixed order
RECURSIVE Canonical(_, _)
Canonical(blob_group, order) ==
    IF order = <<>> THEN <<>>
    ELSE (IF \E i \in 1..Len(blob_group) : blob_group[i] = Head(order)
          THEN <<Head(order)>> ELSE <<>>) \o Canonical(blob_group, Tail(order))

get_blob_group_key_unordered(blob_group) ==
    Join(Canonical(blob_group, <<"sha256:A", "sha256:B", "sha256:base",
                               "sha256:layerX", "sha256:layerY">>))

\* hashlib.sha256(".".join(blob_group).encode('utf-8')).digest(): the hash is
\* taken to be collision free, so the key is the joined string itself
get_blob_group_key(blob_group) == Join(blob_group)

-----------------------------------------------------------------------------
(* RepoStats._get_blob_group_info *)

\* self._blob_to_image_tags[blob_sum], read only: the defaultdict's factory
\* value when the key is absent
BlobEntry(b2it, blob_sum) ==
    IF blob_sum \in DOMAIN b2it THEN b2it[blob_sum]
    ELSE [info |-> None, usage |-> {}]

Returned(unique_size, parent) ==
    [raised |-> FALSE, unique_size |-> unique_size, parent |-> parent]
\* an IndexError (blobs[-1] of an empty list) or a TypeError (info is None)
Raised == [raised |-> TRUE, unique_size |-> 0, parent |-> NoneKey]

\* the body of "for end_idx in range(len(blobs), -1, -1)" from end_idx on
RECURSIVE InfoLoop(_, _, _, _, _)
InfoLoop(groups, b2it, blob_group_key, end_idx, unique_size) ==
    IF end_idx < 0 THEN Returned(unique_size, NoneKey)
    ELSE LET blobs == groups[blob_group_key].blobs
             parent_blob_group_key == get_blob_group_key(PyPrefix(blobs, end_idx))
         IN IF /\ parent_blob_group_key # blob_group_key
               /\ parent_blob_group_key \in DOMAIN groups
            THEN Returned(unique_size, parent_blob_group_key)
            ELSE IF ~PyInRange(blobs, end_idx - 1) THEN Raised
            ELSE LET blob_sum == PyIndex(blobs, end_idx - 1)
                     info == BlobEntry(b2it, blob_sum).info
                 IN IF info = None THEN Raised
                    ELSE InfoLoop(groups, b2it, blob_group_key, end_idx - 1,
                                  unique_size + info.size)

\* a plausible bug: the scan of the prefixes starts at the shortest one
RECURSIVE InfoLoopUp(_, _, _, _)
InfoLoopUp(groups, b2it, blob_group_key, end_idx) ==
    LET blobs == groups[blob_group_key].blobs
        parent_blob_group_key == get_blob_group_key(PyPrefix(blobs, end_idx))
        rest == [i \in 1..(Len(blobs) - end_idx) |-> blobs[end_idx + i]]
        Sum[i \in 0..Len(rest)] ==
            IF i = 0 THEN 0 ELSE Sum[i - 1] + BlobEntry(b2it, rest[i]).info.size
    IN IF end_idx >= Len(blobs) THEN Returned(Sum[Len(rest)], NoneKey)
       ELSE IF /\ parent_blob_group_key # blob_group_key
               /\ parent_blob_group_key \in DOMAIN groups
            THEN Returned(Sum[Len(rest)], parent_blob_group_key)
            ELSE InfoLoopUp(groups, b2it, blob_group_key, end_idx + 1)

get_blob_group_info_shortest(groups, b2it, blob_group_key) ==
    InfoLoopUp(groups, b2it, blob_group_key, 0)

\* (group_unique_size, parent_blob_group_key) of a registered group
get_blob_group_info(groups, b2it, blob_group_key) ==
    InfoLoop(groups, b2it, blob_group_key, Len(groups[blob_group_key].blobs), 0)

-----------------------------------------------------------------------------
(* RepoStats._process_image_tag, from the manifest on (lines 187-219) *)

\* lines 187-194: the layers base first, for either schema version; a layer
\* is its digest (its "size", schema 2, is BlobSize of it)
Layers(manifest) ==
    IF manifest.schemaVersion = 1 THEN Reversed(manifest.fsLayers)
    ELSE manifest.layers

BlobJob(image_name, blob_sum, id) ==
    [image_name |-> image_name, blob_sum |-> blob_sum, id |-> id]

\* a plausible bug: the in-progress set is not consulted
NotInProgressIgnored(inprog, blob_sum) == TRUE

\* "blob_sum not in self._inprogress_blobs" of line 213
NotInProgress(inprog, blob_sum) == blob_sum \notin inprog

\* lines 205-219 from the layer at index i (1-based) on, on the state st of
\* the fields the loop touches, until the loop ends or blob_pool.push finds
\* the queue full. asyncio.Queue.put suspends only when the queue is full, so
\* the loop runs on without a suspension point through every other push.
RECURSIVE LayerLoop(_, _, _, _, _)
LayerLoop(st, e, schemaVersion, layers, i) ==
    IF i > Len(layers) THEN [st EXCEPT !.i = i, !.blocked = FALSE]
    ELSE
    LET blob_sum == layers[i]
        old == BlobEntry(st.b2it, blob_sum)
        blob_entry == [old EXCEPT !.usage = @ \cup {<<e.image_name, e.tag>>}]
        used == [st EXCEPT !.b2it = (blob_sum :> blob_entry) @@ @]
    IN IF schemaVersion = 1
       THEN IF blob_entry.info = None /\ NotInProgress(st.inprog, blob_sum)
            THEN LET marked == [used EXCEPT !.inprog = @ \cup {blob_sum}]
                 IN IF Len(st.queue) < QueueCap
                    THEN LayerLoop(
                            [marked EXCEPT
                                !.queue = Append(@, BlobJob(e.image_name, blob_sum, st.pushes)),
                                !.pushes = @ + 1],
                            e, schemaVersion, layers, i + 1)
                    ELSE [marked EXCEPT !.i = i, !.blocked = TRUE]
            ELSE LayerLoop(used, e, schemaVersion, layers, i + 1)
       ELSE IF blob_entry.info = None
            THEN LayerLoop(
                    [used EXCEPT
                        !.total = @ + BlobSize(blob_sum),
                        !.b2it = (blob_sum :> [blob_entry EXCEPT
                                     !.info = [size |-> BlobSize(blob_sum)]]) @@ @,
                        !.writes = [@ EXCEPT ![blob_sum] = @ + 1]],
                    e, schemaVersion, layers, i + 1)
            ELSE LayerLoop(used, e, schemaVersion, layers, i + 1)

LoopState ==
    [b2it |-> blob_to_image_tags, inprog |-> inprogress_blobs,
     total |-> total_blob_size, queue |-> blob_queue, writes |-> info_writes,
     pushes |-> blob_pushes, i |-> 0, blocked |-> FALSE]

\* the loop's result r written back; the job j stays in the pool, suspended
\* in blob_pool.push, when the loop blocked, and is over otherwise
LoopDone(r, j, running) ==
    /\ blob_to_image_tags' = r.b2it
    /\ inprogress_blobs' = r.inprog
    /\ total_blob_size' = r.total
    /\ blob_queue' = r.queue
    /\ info_writes' = r.writes
    /\ blob_pushes' = r.pushes
    /\ img_running' = IF r.blocked
                      THEN running \cup {[job |-> j, at |-> "push", i |-> r.i]}
                      ELSE running

\* line 201 run only for the tag that makes the group
add_image_tag_new_group(images, image_name, tag) ==
    IF images = {} THEN {<<image_name, tag>>} ELSE images

\* line 201: blob_group_entry['images'][image_name].add(tag)
add_image_tag(images, image_name, tag) == images \cup {<<image_name, tag>>}

\* lines 187-219 for the job j of entry e, whose manifest is at hand
ProcessManifest(e, j, manifest, running) ==
    LET layers == Layers(manifest)
        blob_group == layers
        blob_group_key == get_blob_group_key(blob_group)
        \* line 199: 'blobs' is None exactly when the entry is new
        blobs == IF blob_group_key \in DOMAIN blob_groups
                 THEN blob_groups[blob_group_key].blobs ELSE blob_group
        images == IF blob_group_key \in DOMAIN blob_groups
                  THEN blob_groups[blob_group_key].images ELSE {}
    IN /\ blob_groups' = (blob_group_key :>
                            [blobs |-> blobs,
                             images |-> add_image_tag(images, e.image_name, e.tag)])
                         @@ blob_groups
       /\ image_info' = image_info \cup {<<e.image_name, blob_group_key, e.tag>>}
       /\ info_order' = IF \E n \in 1..Len(info_order) :
                              info_order[n] = <<e.image_name, blob_group_key>>
                        THEN info_order
                        ELSE Append(info_order, <<e.image_name, blob_group_key>>)
       /\ LoopDone(LayerLoop(LoopState, e, manifest.schemaVersion, layers, 1),
                   j, running)

\* job j went through these events: "hit" (its manifest came from the shelf),
\* "call" (get_image_manifest was called), "None", "manifest" or "raise" (what
\* the call did), "registered" (lines 187-219 ran for it)
Logged(j, events) == job_log' = [job_log EXCEPT ![j] = @ \o events]

\* the job registry[j] takes up a free worker of image_tag_pool: lines 170-173,
\* then either the cached manifest and the rest of the job, or the await of
\* get_image_manifest
ImgStart ==
    /\ pc \in {"push", "join_img"}
    /\ img_queue # <<>>
    /\ Cardinality(img_running) < num_workers
    /\ LET j == Head(img_queue)
           manifest_key == registry[j].image_name \o ":" \o registry[j].tag
       IN /\ img_queue' = Tail(img_queue)
          /\ IF shelf.open /\ manifest_key \in DOMAIN shelf.data
             THEN /\ ProcessManifest(registry[j], j, shelf.data[manifest_key], img_running)
                  /\ Logged(j, <<"hit", "registered">>)
             ELSE /\ img_running' = img_running \cup
                                      {[job |-> j, at |-> "manifest1", i |-> 0]}
                  /\ Logged(j, <<"call">>)
                  /\ UNCHANGED <<blob_groups, image_info, info_order, blob_to_image_tags,
                                 inprogress_blobs, total_blob_size, blob_queue,
                                 info_writes, blob_pushes>>
    /\ UNCHANGED <<shelf, client, registry, num_workers, pc, next_tag, blob_running,
                   img_exceptions, blob_exceptions, fetches, aggVars, pureVars, pagerVars>>

\* the job ends with an exception: asyncpool's worker loop sets the pool's flag
ImgJobRaises(rec) ==
    /\ img_running' = img_running \ {rec}
    /\ img_exceptions' = TRUE
    /\ UNCHANGED <<selfVars, blob_queue, blob_pushes, info_writes>>

\* get_image_manifest returns the manifest: lines 177-185, then the rest
ManifestOk(rec) ==
    /\ rec.at \in {"manifest1", "manifest2"}
    /\ LET e == registry[rec.job]
           manifest_key == e.image_name \o ":" \o e.tag
       IN /\ shelf' = IF shelf.open
                      THEN [shelf EXCEPT !.data = (manifest_key :> e.manifest) @@ @]
                      ELSE shelf
          /\ ProcessManifest(e, rec.job, e.manifest, img_running \ {rec})
    /\ Logged(rec.job, <<"manifest", "registered">>)
    /\ UNCHANGED img_exceptions

\* a plausible bug: no second call, the first None fails the job
ManifestNoneNoRetry(rec) ==
    /\ rec.at \in {"manifest1", "manifest2"}
    /\ ImgJobRaises(rec)
    /\ Logged(rec.job, <<"None">>)

\* get_image_manifest returns None: the second call (line 175), or the
\* assert of line 177 after it
ManifestNone(rec) ==
    \/ /\ rec.at = "manifest1"
       /\ img_running' = (img_running \ {rec}) \cup {[rec EXCEPT !.at = "manifest2"]}
       /\ Logged(rec.job, <<"None", "call">>)
       /\ UNCHANGED <<selfVars, blob_queue, blob_pushes, info_writes, img_exceptions>>
    \/ /\ rec.at = "manifest2"
       /\ ImgJobRaises(rec)
       /\ Logged(rec.job, <<"None">>)

\* get_image_manifest raises (its retries are used up), the body is no
\* manifest (no 'schemaVersion', or one that is neither 1 nor 2), or the
\* shelf refuses the write of line 185
ManifestRaises(rec) ==
    /\ rec.at \in {"manifest1", "manifest2"}
    /\ ImgJobRaises(rec)
    /\ Logged(rec.job, <<"raise">>)

ManifestResponse ==
    /\ pc \in {"push", "join_img"}
    /\ \E rec \in img_running :
          \/ ManifestOk(rec)
          \/ ManifestNone(rec)
          \/ ManifestRaises(rec)
    /\ UNCHANGED <<client, registry, num_workers, pc, next_tag, img_queue, blob_running,
                   blob_exceptions, fetches, aggVars, pureVars, pagerVars>>

\* blob_pool's queue has room again: the push of line 215 returns and the
\* loop goes on with the next layer
BlobPushResume ==
    /\ pc \in {"push", "join_img"}
    /\ Len(blob_queue) < QueueCap
    /\ \E rec \in img_running :
          /\ rec.at = "push"
          /\ LET e == registry[rec.job]
                 layers == Layers(e.manifest)
                 pushed == [LoopState EXCEPT
                              !.queue = Append(@, BlobJob(e.image_name, layers[rec.i],
                                                          blob_pushes)),
                              !.pushes = @ + 1]
             IN LoopDone(LayerLoop(pushed, e, e.manifest.schemaVersion, layers, rec.i + 1),
                         rec.job, img_running \ {rec})
    /\ UNCHANGED <<blob_groups, image_info, info_order, shelf, client, registry, num_workers, pc, next_tag,
                   img_queue, blob_running, img_exceptions, blob_exceptions,
                   fetches, job_log, aggVars, pureVars, pagerVars>>

-----------------------------------------------------------------------------
(* RepoStats._process_blob *)

\* a plausible bug: the digest stays marked when its blob job is over
FinallyKeeps(blob_sum, raised) ==
    /\ inprogress_blobs' = inprogress_blobs
    /\ blob_exceptions' = (blob_exceptions \/ raised)

\* line 167, in the finally: set.remove raises KeyError when blob_sum is absent
Finally(blob_sum, raised) ==
    /\ inprogress_blobs' = inprogress_blobs \ {blob_sum}
    /\ blob_exceptions' = (blob_exceptions \/ raised \/ blob_sum \notin inprogress_blobs)

\* lines 164-165 with a blob_info that has a size, then the finally
Publish(blob_sum, blob_info) ==
    /\ blob_to_image_tags' =
          (blob_sum :> [BlobEntry(blob_to_image_tags, blob_sum) EXCEPT !.info = blob_info])
          @@ blob_to_image_tags
    /\ info_writes' = [info_writes EXCEPT ![blob_sum] = @ + 1]
    /\ total_blob_size' = total_blob_size + blob_info.size
    /\ Finally(blob_sum, FALSE)

\* a plausible bug: blob_pool is the inner pool of the "async with", so its
\* workers are gone once the loops are left
BlobPoolRunsInLoops(at) == at = "push"

\* blob_pool is entered first and left last (lines 100-101): its workers run
\* while the driver pushes and while either pool is joined
BlobPoolRuns(at) == at \in {"push", "join_img", "join_blob"}

\* the head of blob_pool's queue takes up a free worker: line 157, then
\* either the cached info and the rest of the job, or the await of line 159
BlobStart ==
    /\ BlobPoolRuns(pc)
    /\ blob_queue # <<>>
    /\ Cardinality(blob_running) < num_workers
    /\ LET job == Head(blob_queue)
           blob_info == IF shelf.open /\ job.blob_sum \in DOMAIN shelf.data
                        THEN shelf.data[job.blob_sum] ELSE None
       IN /\ blob_queue' = Tail(blob_queue)
          /\ IF blob_info # None
             THEN /\ Publish(job.blob_sum, blob_info)
                  /\ UNCHANGED <<blob_running, fetches>>
             ELSE /\ blob_running' = blob_running \cup {job}
                  /\ fetches' = [fetches EXCEPT ![job.blob_sum] = @ + 1]
                  /\ UNCHANGED <<blob_to_image_tags, info_writes, total_blob_size,
                                 inprogress_blobs, blob_exceptions>>
    /\ UNCHANGED <<blob_groups, image_info, info_order, shelf, client, registry, num_workers, pc, next_tag,
                   img_queue, img_running, img_exceptions, blob_pushes, job_log, aggVars,
                   pureVars, pagerVars>>

\* what the client's get_blob_info returns: RegistryClient the size of the
\* blob, S3RegistryClient (whose get_blob_info is "pass") None
get_blob_info(blob_sum) ==
    IF client = "RegistryClient" THEN [size |-> BlobSize(blob_sum)] ELSE None

Cached(key, value) ==
    IF shelf.open THEN [shelf EXCEPT !.data = (key :> value) @@ @] ELSE shelf

\* get_blob_info returns: lines 161-165, then the finally. A None is cached
\* and assigned to "info", and line 165 raises TypeError on it.
BlobInfoReturns(job) ==
    LET blob_info == get_blob_info(job.blob_sum)
    IN /\ shelf' = Cached(job.blob_sum, blob_info)
       /\ IF blob_info # None
          THEN Publish(job.blob_sum, blob_info)
          ELSE /\ blob_to_image_tags' =
                     (job.blob_sum :> [BlobEntry(blob_to_image_tags, job.blob_sum)
                                          EXCEPT !.info = None])
                     @@ blob_to_image_tags
               /\ Finally(job.blob_sum, TRUE)
               /\ UNCHANGED <<info_writes, total_blob_size>>

\* get_blob_info raises (its retries are used up): only the finally runs
BlobInfoRaises(job) ==
    /\ Finally(job.blob_sum, TRUE)
    /\ UNCHANGED <<shelf, blob_to_image_tags, info_writes, total_blob_size>>

\* get_blob_info returns and the shelf refuses the write of line 162
BlobShelfRaises(job) ==
    /\ shelf.open
    /\ Finally(job.blob_sum, TRUE)
    /\ UNCHANGED <<shelf, blob_to_image_tags, info_writes, total_blob_size>>

BlobInfoResponse ==
    /\ BlobPoolRuns(pc)
    /\ \E job \in blob_running :
          /\ blob_running' = blob_running \ {job}
          /\ \/ BlobInfoReturns(job)
             \/ BlobInfoRaises(job)
             \/ BlobShelfRaises(job)
    /\ UNCHANGED <<blob_groups, image_info, info_order, client, registry, num_workers, pc, next_tag,
                   img_queue, img_running, blob_queue, img_exceptions, blob_pushes,
                   fetches, job_log, aggVars, pureVars, pagerVars>>

-----------------------------------------------------------------------------
(* RepoStats.get_stats *)

\* lines 103-107: the pagers yield the next (image_name, tag) and
\* image_tag_pool.push returns once the queue has room
DriverPush ==
    /\ pc = "push"
    /\ next_tag <= Len(registry)
    /\ Len(img_queue) < QueueCap
    /\ img_queue' = Append(img_queue, next_tag)
    /\ next_tag' = next_tag + 1
    /\ UNCHANGED <<selfVars, client, registry, num_workers, pc, img_running, blob_queue,
                   blob_running, img_exceptions, blob_exceptions, blob_pushes,
                   histVars, pureVars, pagerVars>>

\* the catalog is exhausted: the "async with" is left, image_tag_pool first
DriverLeave ==
    /\ pc = "push"
    /\ next_tag > Len(registry)
    /\ pc' = "join_img"
    /\ UNCHANGED <<selfVars, client, registry, num_workers, next_tag, img_queue, img_running,
                   blob_queue, blob_running, img_exceptions, blob_exceptions,
                   blob_pushes, histVars, pureVars, pagerVars>>

\* a plausible bug: the scope is left without waiting for the pool
DrainedNoWait(queue, running) == TRUE

\* a pool's join returns when its workers have taken every job and ended
Drained(queue, running) == queue = <<>> /\ running = {}

\* image_tag_pool.__aexit__: join() returns; blob_pool.__aexit__ is next
\* (also when the join raises: the exception is raised once both are left)
JoinImagePool ==
    /\ pc = "join_img"
    /\ Drained(img_queue, img_running)
    /\ pc' = "join_blob"
    /\ UNCHANGED <<selfVars, client, registry, num_workers, next_tag, img_queue, img_running,
                   blob_queue, blob_running, img_exceptions, blob_exceptions,
                   blob_pushes, histVars, pureVars, pagerVars>>

\* a plausible bug: image_tag_pool made without raise_on_join=True
JoinRaisesBlobOnly(img_raised, blob_raised) == blob_raised

\* raise_on_join=True on both pools (lines 100-101): the "async with" raises
\* when a job of either pool raised
JoinRaises(img_raised, blob_raised) == img_raised \/ blob_raised

\* blob_pool.__aexit__: join() returns; raise_on_join=True makes the scope
\* raise if a job of either pool raised, and line 114 is reached otherwise
JoinBlobPool ==
    /\ pc = "join_blob"
    /\ Drained(blob_queue, blob_running)
    /\ pc' = IF JoinRaises(img_exceptions, blob_exceptions) THEN "raised" ELSE "aggregate"
    /\ UNCHANGED <<selfVars, client, registry, num_workers, next_tag, img_queue, img_running,
                   blob_queue, blob_running, img_exceptions, blob_exceptions,
                   blob_pushes, histVars, pureVars, pagerVars>>

\* the keys of self._image_info[image_name], over all images
ImageKeys == {t[2] : t \in image_info}

\* the first occurrences of the elements of seq, in order
RECURSIVE Distinct(_)
Distinct(seq) ==
    IF seq = <<>> THEN <<>>
    ELSE <<Head(seq)>> \o Distinct(SelectSeq(Tail(seq), LAMBDA x : x # Head(seq)))

\* self._image_info.keys(), and self._image_info[image_name].keys(): dicts
\* iterate in insertion order
ImageNames == Distinct([n \in 1..Len(info_order) |-> info_order[n][1]])
KeysOf(image_name) ==
    LET own == SelectSeq(info_order, LAMBDA p : p[1] = image_name)
    IN [n \in 1..Len(own) |-> own[n][2]]

\* _get_blob_group_name (lines 73-75): "image:{tags}" of every image of the
\* group, in the insertion order of self._blob_groups[key]['images'], which
\* is filled in the same step as self._image_info (lines 201-203)
get_blob_group_name(blob_group_key, tag_order) ==
    LET with_key == SelectSeq(info_order, LAMBDA p : p[2] = blob_group_key)
        tags(image_name) ==
            {t[2] : t \in {u \in blob_groups[blob_group_key].images : u[1] = image_name}}
    IN JoinWith(", ", [n \in 1..Len(with_key) |->
                         with_key[n][1] \o ":" \o SetRepr(tags(with_key[n][1]), tag_order)])

\* new_instance leaving the number off the first node of a name
new_instance_bare_first(instances, name) ==
    LET g_inst == IF name \in DOMAIN instances THEN instances[name] ELSE 0
    IN [label |-> IF g_inst = 0 THEN name ELSE name \o "_" \o ToString(g_inst),
        instances |-> (name :> (g_inst + 1)) @@ instances]

\* _BlobGroupInstanceHelper.new_instance (lines 25-28) on the counters
\* instances (a defaultdict(int)): the label and the counters after it
new_instance(instances, name) ==
    LET g_inst == IF name \in DOMAIN instances THEN instances[name] ELSE 0
    IN [label |-> name \o "_" \o ToString(g_inst),
        instances |-> (name :> (g_inst + 1)) @@ instances]

\* a row of a chart: (node, parent node, size); the root's parent is None
Row(name, parent, size) == [name |-> name, parent |-> parent, size |-> size]

\* lines 131-143 for one group of an image, on st = [instances, rows,
\* image_unique_size, raised]: the "while" of line 135 runs at most once
\* (the break of line 141), and line 137 assigns the parent's result to
\* blob_group_unique_size before the rows of lines 139 and 143 use it
GroupRows(st, blob_group_key, tag_order) ==
    LET first == get_blob_group_info(blob_groups, blob_to_image_tags, blob_group_key)
        own == new_instance(st.instances, get_blob_group_name(blob_group_key, tag_order))
        parent == new_instance(own.instances, get_blob_group_name(first.parent, tag_order))
        second == get_blob_group_info(blob_groups, blob_to_image_tags, first.parent)
    IN IF first.raised THEN [st EXCEPT !.raised = TRUE]
       ELSE IF first.parent = NoneKey
       THEN [st EXCEPT !.instances = own.instances,
                       !.image_unique_size = @ + first.unique_size,
                       !.rows = Append(@, Row(own.label, "root", first.unique_size))]
       ELSE IF second.raised THEN [st EXCEPT !.raised = TRUE]
       ELSE [st EXCEPT !.instances = parent.instances,
                       !.image_unique_size = @ + first.unique_size,
                       !.rows = @ \o <<Row(parent.label, own.label, second.unique_size),
                                       Row(own.label, "root", second.unique_size)>>]

\* the loop of line 130 over the keys of one image
RECURSIVE ImageRows(_, _, _)
ImageRows(st, keys, tag_order) ==
    IF keys = <<>> \/ st.raised THEN st
    ELSE ImageRows(GroupRows(st, Head(keys), tag_order), Tail(keys), tag_order)

\* the loop of line 125 over the images, on agg = [instances, img_data,
\* g_data, raised]: lines 145-147 end an image, get_treemap writes its chart
RECURSIVE AllRows(_, _, _)
AllRows(agg, image_names, tag_order) ==
    IF image_names = <<>> \/ agg.raised THEN agg
    ELSE LET image_name == Head(image_names)
             st == ImageRows([instances |-> agg.instances, rows |-> <<>>,
                              image_unique_size |-> 0, raised |-> FALSE],
                             KeysOf(image_name), tag_order)
         IN IF st.raised THEN [agg EXCEPT !.raised = TRUE]
            ELSE AllRows(
                    [agg EXCEPT
                        !.instances = st.instances,
                        !.g_data = Append(@, Row(image_name, "root", st.image_unique_size)),
                        !.img_data = (image_name :>
                                        Append(st.rows, Row("root", NoneKey,
                                                            st.image_unique_size))) @@ @],
                    Tail(image_names), tag_order)

\* lines 123-153: the rows of every image's chart, then (lines 149-153) the
\* root chart; an exception of _get_blob_group_info leaves get_stats with
\* the charts written so far
Aggregate ==
    /\ pc = "aggregate"
    /\ \E tag_order \in Orders({registry[j].tag : j \in 1..Len(registry)}) :
          LET agg == AllRows([instances |-> <<>>, img_data |-> <<>>, g_data |-> <<>>,
                              raised |-> FALSE],
                             ImageNames, tag_order)
          IN /\ report' = [k \in ImageKeys |->
                              get_blob_group_info(blob_groups, blob_to_image_tags, k)]
             /\ img_data' = agg.img_data
             /\ g_data' = IF agg.raised THEN <<>>
                          ELSE Append(agg.g_data, Row("root", NoneKey, total_blob_size))
             /\ pc' = IF agg.raised THEN "raised" ELSE "done"
    /\ UNCHANGED <<selfVars, client, registry, num_workers, next_tag, img_queue, img_running,
                   blob_queue, blob_running, img_exceptions, blob_exceptions,
                   blob_pushes, fetches, info_writes, job_log, pureVars, pagerVars>>

-----------------------------------------------------------------------------
(* The scan: get_stats over one of the registries below *)

Entry(image_name, tag, schemaVersion, layers) ==
    [image_name |-> image_name, tag |-> tag,
     manifest |-> IF schemaVersion = 1
                  THEN [schemaVersion |-> 1, fsLayers |-> Reversed(layers)]
                  ELSE [schemaVersion |-> 2, layers |-> layers]]

\* one image, two tags, the second built on the first
EndToEnd ==
    <<Entry("app", "v1", 1, <<"sha256:base">>),
      Entry("app", "v2", 1, <<"sha256:base", "sha256:layerX">>)>>

\* the same layers under two tags, served in the two schema versions
Mixed ==
    <<Entry("app", "v1", 1, <<"sha256:base", "sha256:layerX">>),
      Entry("app", "v2", 2, <<"sha256:base", "sha256:layerX">>)>>

\* two images; three layers in one manifest, one layer twice in the other
TwoImages ==
    <<Entry("app", "v1", 1, <<"sha256:base", "sha256:layerX", "sha256:layerY">>),
      Entry("lib", "v1", 1, <<"sha256:base", "sha256:base">>)>>

\* schema 2 only, and a tag the pager yields twice
Schema2 ==
    <<Entry("app", "v1", 2, <<"sha256:base">>),
      Entry("app", "v2", 2, <<"sha256:base", "sha256:layerX">>),
      Entry("app", "v2", 2, <<"sha256:base", "sha256:layerX">>)>>

\* three tags on one base, two of them with the same layers in two images
ThreeTags ==
    <<Entry("app", "v1", 1, <<"sha256:base">>),
      Entry("app", "v2", 1, <<"sha256:base", "sha256:layerX">>),
      Entry("lib", "v1", 1, <<"sha256:base", "sha256:layerX">>)>>

\* three tags, the first with two layers: with one worker per pool its job
\* waits to push the second blob job while the driver waits to push the third tag
Saturating ==
    <<Entry("app", "v1", 1, <<"sha256:base", "sha256:layerX">>),
      Entry("app", "v2", 2, <<"sha256:base">>),
      Entry("lib", "v1", 2, <<"sha256:base">>)>>

Registries == {EndToEnd, Mixed, TwoImages, Schema2, ThreeTags}

NoShelf == [open |-> FALSE, data |-> <<>>]
EmptyShelf == [open |-> TRUE, data |-> <<>>]
\* what an earlier run that was cut short left behind
WarmShelf == [open |-> TRUE,
              data |-> "sha256:base" :> [size |-> BlobSize("sha256:base")]]

InitSelf ==
    /\ blob_groups = <<>>
    /\ image_info = {}
    /\ info_order = <<>>
    /\ blob_to_image_tags = <<>>
    /\ inprogress_blobs = {}
    /\ total_blob_size = 0

InitPools ==
    /\ pc = "push"
    /\ next_tag = 1
    /\ img_queue = <<>>
    /\ img_running = {}
    /\ blob_queue = <<>>
    /\ blob_running = {}
    /\ img_exceptions = FALSE
    /\ blob_exceptions = FALSE
    /\ blob_pushes = 0
    /\ fetches = [d \in Digests \cup InfoDigests |-> 0]
    /\ info_writes = [d \in Digests \cup InfoDigests |-> 0]
    /\ job_log = [j \in 1..Len(registry) |-> <<>>]
    /\ report = <<>>
    /\ img_data = <<>>
    /\ g_data = <<>>

\* no label is asked for
InitNoNames ==
    /\ g_instances = <<>>
    /\ node_names = <<>>

InitPure ==
    /\ key_in = <<>>
    /\ key_out = <<>>
    /\ info_out = <<>>
    /\ InitNoNames

\* no pager is looked at
InitNoPager ==
    /\ source = <<>>
    /\ pager = <<>>
    /\ iteration = <<>>
    /\ served = <<>>
    /\ driver = <<>>

Init ==
    /\ InitSelf
    /\ shelf \in {NoShelf, EmptyShelf, WarmShelf}
    /\ client \in {"RegistryClient", "S3RegistryClient"}
    /\ num_workers = NumWorkers
    /\ registry \in Registries
    /\ InitPools
    /\ InitPure
    /\ InitNoPager

Next ==
    \/ DriverPush
    \/ DriverLeave
    \/ ImgStart
    \/ ManifestResponse
    \/ BlobPushResume
    \/ BlobStart
    \/ BlobInfoResponse
    \/ JoinImagePool
    \/ JoinBlobPool
    \/ Aggregate

Spec == Init /\ [][Next]_vars

\* the pipeline with pools of every size from one worker up, over registries
\* whose first job pushes two or three blob jobs in a row
LiveInit ==
    /\ InitSelf
    /\ shelf \in {EmptyShelf, WarmShelf}
    /\ client = "RegistryClient"
    /\ num_workers \in 1..NumWorkers
    /\ registry \in {Saturating, TwoImages, Mixed}
    /\ InitPools
    /\ InitPure
    /\ InitNoPager

\* lines 100-112: the pool scope, up to the point where it is left
LiveNext ==
    \/ DriverPush
    \/ DriverLeave
    \/ ImgStart
    \/ ManifestResponse
    \/ BlobPushResume
    \/ BlobStart
    \/ BlobInfoResponse
    \/ JoinImagePool
    \/ JoinBlobPool

\* the event loop runs every task that can run (the driver, the workers of
\* both pools, the joins), and every request returns or raises
Fairness ==
    /\ WF_vars(DriverPush)
    /\ WF_vars(DriverLeave)
    /\ WF_vars(ImgStart)
    /\ WF_vars(ManifestResponse)
    /\ WF_vars(BlobPushResume)
    /\ WF_vars(BlobStart)
    /\ WF_vars(BlobInfoResponse)
    /\ WF_vars(JoinImagePool)
    /\ WF_vars(JoinBlobPool)

SpecLive == LiveInit /\ [][LiveNext]_vars /\ Fairness

-----------------------------------------------------------------------------
(* _get_blob_group_key on its own: two digest lists, then their keys *)

InitIdle ==
    /\ InitSelf
    /\ shelf = NoShelf
    /\ client = "RegistryClient"
    /\ num_workers = NumWorkers
    /\ registry = <<>>
    /\ InitPools

KeyInit ==
    /\ InitIdle
    /\ key_in \in SeqsUpTo(Digests, MaxLen) \X SeqsUpTo(Digests, MaxLen)
    /\ key_out = <<>>
    /\ info_out = <<>>
    /\ InitNoNames
    /\ InitNoPager

KeyCall ==
    /\ key_out = <<>>
    /\ key_out' = <<get_blob_group_key(key_in[1]), get_blob_group_key(key_in[2])>>
    /\ UNCHANGED <<selfVars, client, registry, num_workers, poolVars, histVars, key_in, info_out,
                   nameVars, pagerVars>>

SpecKey == KeyInit /\ [][KeyCall]_vars

-----------------------------------------------------------------------------
(* _get_blob_group_info on its own: groups are registered by schema 2 jobs *)
(* run one after the other (no await in them: each is one step), then the  *)
(* function is called on a registered group.                               *)

\* the place of a digest list in the order the tags are listed in: shorter
\* lists first (the function reads the groups, not the order of their
\* registration, which only info_order keeps)
RECURSIVE Rank(_)
Rank(blob_group) ==
    IF blob_group = <<>> THEN 0
    ELSE Rank(PyPrefix(blob_group, Len(blob_group) - 1)) * (Cardinality(InfoDigests) + 1)
            + (IF blob_group[Len(blob_group)] = "sha256:A" THEN 1 ELSE 2)

InfoRegister ==
    /\ Cardinality(DOMAIN blob_groups) < MaxGroups
    /\ \E blob_group \in SeqsUpTo(InfoDigests, MaxLen) :
          \* one tag per group, named after the layers it points at
          LET e == Entry("app", "t-" \o Join(blob_group), 2, blob_group)
          IN /\ \A k \in DOMAIN blob_groups : Rank(blob_groups[k].blobs) < Rank(blob_group)
             /\ ProcessManifest(e, 1, e.manifest, {})
    /\ info_out' = <<>>
    /\ UNCHANGED <<shelf, client, registry, num_workers, pc, next_tag, img_queue, blob_running,
                   img_exceptions, blob_exceptions, fetches, job_log, aggVars,
                   key_in, key_out, nameVars, pagerVars>>

InfoCall ==
    /\ \E blob_group_key \in DOMAIN blob_groups :
          info_out' = [key |-> blob_group_key,
                       result |-> get_blob_group_info(blob_groups, blob_to_image_tags,
                                                      blob_group_key)]
    /\ UNCHANGED <<selfVars, client, registry, num_workers, poolVars, histVars, key_in, key_out,
                   nameVars, pagerVars>>

InfoInit ==
    /\ InitIdle
    /\ InitPure
    /\ InitNoPager

InfoNext ==
    \/ InfoRegister
    \/ InfoCall

SpecInfo == InfoInit /\ [][InfoNext]_vars

-----------------------------------------------------------------------------
(* _BlobGroupInstanceHelper on its own: one helper (get_stats makes one,   *)
(* line 123) is asked for a node name again and again, for any display     *)
(* text: a text asked for before, and texts that end in "_<number>".       *)

MaxRequests == 4

DisplayTexts == {"app:{'v1'}", "app:{'v1'}_0", "app:{'v1'}_1", "app:{'v1'}_0_0"}

NamesInit ==
    /\ InitIdle
    /\ InitPure
    /\ InitNoPager

\* g_instances.new_instance(name), lines 133 and 136
NewInstanceCall ==
    /\ Len(node_names) < MaxRequests
    /\ \E name \in DisplayTexts :
          LET made == new_instance(g_instances, name)
          IN /\ g_instances' = made.instances
             /\ node_names' = Append(node_names, [name |-> name, label |-> made.label])
    /\ UNCHANGED <<selfVars, client, registry, num_workers, poolVars, histVars, key_in, key_out,
                   info_out, pagerVars>>

SpecNames == NamesInit /\ [][NewInstanceCall]_vars

-----------------------------------------------------------------------------
(* registry_client.py: _Pager (lines 30-65). A response is the record of   *)
(* what the code reads of its JSON body: whether the response key          *)
(* ('repositories', 'tags') is there, the list under it, and the codes of  *)
(* its 'errors'. A URL is the number of the page it asks for; the Link     *)
(* header of a page names the next page when there is one, and an error    *)
(* response carries no Link header.                                        *)

\* "response.links.get('next', _empty_dict).get('url')" is None
NoUrl == 0
\* self._url.with_query(dict(n=self._batch_size)), line 53
FirstUrl == 1

Page(items) == [has_key |-> TRUE, items |-> items, errors |-> <<>>]
ErrorPage(code) == [has_key |-> FALSE, items |-> <<>>, errors |-> <<code>>]

\* __init__ (lines 35-36), and what __aiter__ (lines 40-41) resets
NewPager == [batch |-> None, next |-> NoUrl]
Aiter(p) == [p EXCEPT !.batch = None, !.next = NoUrl]

\* _get_next_batch (lines 44-49) when the request succeeds
get_next_batch(pages, url) ==
    [batch |-> pages[url], next |-> IF url < Len(pages) THEN url + 1 ELSE NoUrl]

\* a plausible bug: the first page is asked for again whenever the buffer
\* is empty ("if not self._batch" for "if self._batch is None")
NextBatchUrlRefetch(p) ==
    IF p.batch = None THEN FirstUrl
    ELSE IF p.batch.items = <<>> THEN (IF p.next # NoUrl THEN p.next ELSE FirstUrl)
    ELSE NoUrl

\* lines 52-56: the URL __anext__ requests, NoUrl when it requests nothing
NextBatchUrl(p) ==
    IF p.batch = None THEN FirstUrl
    ELSE IF p.next # NoUrl /\ p.batch.items = <<>> THEN p.next
    ELSE NoUrl

\* a plausible bug: the error list is not looked at
NotFoundIgnored(batch, is_tags) == FALSE

\* lines 59-61: the first error is NAME_UNKNOWN and the path ends in /tags/list
NotFound(batch, is_tags) ==
    /\ batch.errors # <<>>
    /\ batch.errors[1] = "NAME_UNKNOWN"
    /\ is_tags

Yield(p, item, url) == [kind |-> "yield", item |-> item, pager |-> p, url |-> url]
Stop(p, url) == [kind |-> "stop", item |-> "", pager |-> p, url |-> url]
Error(p, url) == [kind |-> "error", item |-> "", pager |-> p, url |-> url]

\* _Pager.__anext__ (lines 51-65) when its request, if it makes one,
\* succeeds: what it returns or raises (StopAsyncIteration is "stop", a
\* KeyError of "self._batch[self._response_key]" is "error"), the fields
\* after it, and the URL it requested
PagerAnext(p, pages, is_tags) ==
    LET url == NextBatchUrl(p)
        q == IF url # NoUrl THEN get_next_batch(pages, url) ELSE p
    IN IF p.batch # None /\ p.next # NoUrl /\ ~p.batch.has_key THEN Error(p, NoUrl)
       ELSE IF NotFound(q.batch, is_tags) THEN Stop(q, url)
       ELSE IF ~q.batch.has_key THEN Error(q, url)
       ELSE IF q.batch.items = <<>> THEN Stop(q, url)
       ELSE Yield([q EXCEPT !.batch.items = Tail(@)], Head(q.batch.items), url)

-----------------------------------------------------------------------------
(* registry_client.py: _S3Pager (lines 133-157) over the pages of          *)
(* paginator.paginate(...): self._async_iter is that iterator, here the    *)
(* number of pages it has returned; its __anext__ returns the next page    *)
(* and raises StopAsyncIteration after the last. A str is the sequence of  *)
(* its characters.                                                         *)

S3Prefix == <<"r", "/">>
S3Response(names, has_common) ==
    [Prefix |-> S3Prefix,
     has_common |-> has_common,
     CommonPrefixes |-> [n \in 1..Len(names) |->
                            [Prefix |-> S3Prefix \o names[n] \o <<"/">>]]]

\* __init__ (lines 134-137) over a new iterator
NewS3Pager == [async_iter |-> 0, next |-> None, prefix_len |-> None]
\* __aiter__ (lines 144-147)
S3Aiter(p) == [p EXCEPT !.next = None, !.prefix_len = None]

\* "not self._next" of line 150
S3NeedsBatch(p) == IF p.next = None THEN TRUE ELSE p.next.list = <<>>

\* _get_next_batch (lines 139-142) when the paginator has a next page
S3_get_next_batch(p, pages) ==
    LET response == pages[p.async_iter + 1]
    IN [async_iter |-> p.async_iter + 1,
        prefix_len |-> [len |-> Len(response.Prefix)],
        next |-> [list |-> IF response.has_common THEN response.CommonPrefixes
                           ELSE <<>>]]

\* _S3Pager.__anext__ (lines 149-157) when its request, if it makes one,
\* succeeds; the URL is the number of the page the paginator returned
S3PagerAnext(p, pages) ==
    IF S3NeedsBatch(p) /\ p.async_iter >= Len(pages) THEN Stop(p, NoUrl)
    ELSE LET url == IF S3NeedsBatch(p) THEN p.async_iter + 1 ELSE NoUrl
             q == IF S3NeedsBatch(p) THEN S3_get_next_batch(p, pages) ELSE p
         IN IF q.next.list = <<>> THEN Stop(q, url)
            ELSE LET item == Head(q.next.list)
                 IN Yield([q EXCEPT !.next.list = Tail(@)],
                          SubSeq(item.Prefix, q.prefix_len.len + 1, Len(item.Prefix) - 1),
                          url)

-----------------------------------------------------------------------------
(* One pager and its consumer: __aiter__, then __anext__ again and again,  *)
(* as "async for" does it up to the end of the sequence and as a caller of *)
(* __anext__ can do it after the end; __aiter__ again starts the next      *)
(* iteration.                                                              *)

\* the items of page number page_no: no two items of a source are the same
ItemsOf(page_no, count) ==
    [k \in 1..count |-> "repo" \o ToString(page_no) \o "." \o ToString(k)]
S3ItemsOf(page_no, count) ==
    [k \in 1..count |-> <<"p" \o ToString(page_no), "i" \o ToString(k)>>]

\* the pages of a source of _Pager: each page an item list, the last one
\* possibly an error response
PagerSources ==
    UNION {
        {[page_no \in 1..page_count |->
             IF counts[page_no] <= MaxItems THEN Page(ItemsOf(page_no, counts[page_no]))
             ELSE IF counts[page_no] = MaxItems + 1 THEN ErrorPage("NAME_UNKNOWN")
             ELSE ErrorPage("UNAUTHORIZED")] :
           counts \in {c \in [1..page_count -> 0..(MaxItems + 2)] :
                          \A page_no \in 1..(page_count - 1) : c[page_no] <= MaxItems}} :
        page_count \in 1..MaxPages}

\* the pages of a source of _S3Pager: a page without common prefixes has
\* no 'CommonPrefixes' key
S3Sources ==
    UNION {
        {[page_no \in 1..page_count |->
             S3Response(S3ItemsOf(page_no, counts[page_no]), counts[page_no] > 0)] :
           counts \in [1..page_count -> 0..MaxItems]} :
        page_count \in 0..MaxPages}

Sources ==
    {[kind |-> "_Pager", pages |-> pages, is_tags |-> is_tags] :
        pages \in PagerSources, is_tags \in BOOLEAN}
    \cup {[kind |-> "_S3Pager", pages |-> pages, is_tags |-> FALSE] : pages \in S3Sources}

Anext(src, p) ==
    IF src.kind = "_Pager" THEN PagerAnext(p, src.pages, src.is_tags)
    ELSE S3PagerAnext(p, src.pages)

\* the items buffered in the pager
Buffered(src, p) ==
    IF src.kind = "_Pager" THEN (IF p.batch = None THEN 0 ELSE Len(p.batch.items))
    ELSE (IF p.next = None THEN 0 ELSE Len(p.next.list))

\* the next __anext__ makes a request
Requests(src, p) ==
    IF src.kind = "_Pager"
    THEN ~(p.batch # None /\ p.next # NoUrl /\ ~p.batch.has_key) /\ NextBatchUrl(p) # NoUrl
    ELSE S3NeedsBatch(p)

NewIteration(no) ==
    [no |-> no, calls |-> 0, yielded |-> <<>>, requests |-> <<>>, ended |-> "no",
     after |-> 0]

PagerInit ==
    /\ InitIdle
    /\ InitPure
    /\ source \in Sources
    /\ pager = IF source.kind = "_Pager" THEN NewPager ELSE NewS3Pager
    /\ iteration = NewIteration(0)
    /\ served = <<>>
    /\ driver = <<>>

\* __aiter__: the first one, or one after a part or the whole of an iteration
ConsumerAiter ==
    /\ iteration.no < MaxIterations
    /\ pager' = IF source.kind = "_Pager" THEN Aiter(pager) ELSE S3Aiter(pager)
    /\ iteration' = NewIteration(iteration.no + 1)
    /\ UNCHANGED <<selfVars, client, registry, num_workers, poolVars, histVars, pureVars,
                   source, served, driver>>

\* __anext__ returns an item or raises
ConsumerAnext ==
    /\ iteration.no >= 1
    /\ iteration.ended \in {"no", "stop"}
    /\ iteration.after < MaxAfter
    /\ LET r == Anext(source, pager)
       IN /\ pager' = r.pager
          /\ iteration' =
                [iteration EXCEPT
                    !.calls = @ + 1,
                    !.yielded = IF r.kind = "yield" THEN Append(@, r.item) ELSE @,
                    !.requests = IF r.url # NoUrl
                                 THEN Append(@, [url |-> r.url,
                                                 buffered |-> Buffered(source, pager)])
                                 ELSE @,
                    !.ended = IF r.kind = "yield" THEN @ ELSE r.kind,
                    !.after = IF iteration.ended = "stop" THEN @ + 1 ELSE @]
    /\ UNCHANGED <<selfVars, client, registry, num_workers, poolVars, histVars, pureVars,
                   source, served, driver>>

\* the request of __anext__ raises before a response is there (for _Pager
\* after the second try of backoff, line 44): the fields stay as they are
ConsumerRequestRaises ==
    /\ iteration.no >= 1
    /\ iteration.ended \in {"no", "stop"}
    /\ iteration.after < MaxAfter
    /\ Requests(source, pager)
    /\ iteration' = [iteration EXCEPT !.calls = @ + 1, !.ended = "request raised"]
    /\ UNCHANGED <<selfVars, client, registry, num_workers, poolVars, histVars, pureVars,
                   source, pager, served, driver>>

PagerNext ==
    \/ ConsumerAiter
    \/ ConsumerAnext
    \/ ConsumerRequestRaises

SpecPager == PagerInit /\ [][PagerNext]_vars

-----------------------------------------------------------------------------
(* get_stats, lines 103-112: the two "async for" over the pagers of        *)
(* RegistryClient. image_tag_pool.push returns once the queue has room;    *)
(* the pushed (image, tag) are kept in their order. max_image_names is     *)
(* None.                                                                   *)

\* the catalogs and, for each image, the tag lists a registry serves
DriverCatalogs ==
    {<<Page(<<"app", "lib">>)>>,
     <<Page(<<"app">>), Page(<<"lib">>)>>,
     <<Page(<<"lib", "app">>), Page(<<>>)>>}
DriverTags ==
    {<<ErrorPage("NAME_UNKNOWN")>>,
     <<ErrorPage("UNAUTHORIZED")>>,
     <<Page(<<>>)>>,
     <<Page(<<"v1">>)>>,
     <<Page(<<"v1">>), Page(<<"v2">>)>>}

DriverInit ==
    /\ InitIdle
    /\ InitPure
    /\ source = <<>>
    /\ pager = <<>>
    /\ iteration = <<>>
    /\ served \in {[catalog |-> catalog, tags |-> tags] :
                      catalog \in DriverCatalogs, tags \in [{"app", "lib"} -> DriverTags]}
    \* catalog_pager() and the __aiter__ of line 103
    /\ driver = [catalog_pager |-> Aiter(NewPager), tag_pager |-> NewPager,
                 image_name |-> "", pushed |-> <<>>, at |-> "catalog"]

\* line 103: the catalog pager's __anext__; for an image line 105 makes its
\* tag pager, the end of the catalog leaves the loop
DriverCatalogNext ==
    /\ driver.at = "catalog"
    /\ LET r == PagerAnext(driver.catalog_pager, served.catalog, FALSE)
       IN driver' =
             [driver EXCEPT
                 !.catalog_pager = r.pager,
                 !.image_name = IF r.kind = "yield" THEN r.item ELSE @,
                 !.tag_pager = Aiter(NewPager),
                 !.at = IF r.kind = "yield" THEN "tags"
                        ELSE IF r.kind = "stop" THEN "left" ELSE "raised"]
    /\ UNCHANGED <<selfVars, client, registry, num_workers, poolVars, histVars, pureVars,
                   source, pager, iteration, served>>

\* lines 105-107: the tag pager's __anext__; a tag is pushed, the end of the
\* tags goes on with the catalog (line 109)
DriverTagNext ==
    /\ driver.at = "tags"
    /\ LET r == PagerAnext(driver.tag_pager, served.tags[driver.image_name], TRUE)
       IN driver' =
             [driver EXCEPT
                 !.tag_pager = r.pager,
                 !.pushed = IF r.kind = "yield"
                            THEN Append(@, <<driver.image_name, r.item>>) ELSE @,
                 !.at = IF r.kind = "yield" THEN "tags"
                        ELSE IF r.kind = "stop" THEN "catalog" ELSE "raised"]
    /\ UNCHANGED <<selfVars, client, registry, num_workers, poolVars, histVars, pureVars,
                   source, pager, iteration, served>>

\* a request of either pager raises: get_stats raises
DriverRequestRaises ==
    /\ \/ driver.at = "catalog" /\ NextBatchUrl(driver.catalog_pager) # NoUrl
       \/ driver.at = "tags" /\ NextBatchUrl(driver.tag_pager) # NoUrl
    /\ driver' = [driver EXCEPT !.at = "request raised"]
    /\ UNCHANGED <<selfVars, client, registry, num_workers, poolVars, histVars, pureVars,
                   source, pager, iteration, served>>

DriverNext ==
    \/ DriverCatalogNext
    \/ DriverTagNext
    \/ DriverRequestRaises

SpecDriver == DriverInit /\ [][DriverNext]_vars

-----------------------------------------------------------------------------
(* Claims *)

\* the sum of BlobSize over the digests blobs[from], ..., blobs[Len(blobs)]
RECURSIVE SizeFrom(_, _)
SizeFrom(blobs, from) ==
    IF from > Len(blobs) THEN 0
    ELSE BlobSize(blobs[from]) + SizeFrom(blobs, from + 1)

\* a group with these blobs is registered
Registered(blobs) == \E k \in DOMAIN blob_groups : blob_groups[k].blobs = blobs

\* the lengths L < n of the registered proper prefixes of blobs
ParentLengths(blobs) ==
    {L \in 0..(Len(blobs) - 1) : Registered(PyPrefix(blobs, L))}

Longest(lengths) == CHOOSE L \in lengths : \A M \in lengths : M <= L

\* C1: when a proper prefix of a registered group G is registered,
\* _get_blob_group_info(G) returns the group of the longest registered
\* proper prefix as parent, and as unique size the sum of the sizes of the
\* digests after that prefix.
C1_ParentIsLongestPrefix ==
    info_out # <<>> =>
        LET blobs == blob_groups[info_out.key].blobs
            lengths == ParentLengths(blobs)
        IN lengths # {} =>
              /\ ~info_out.result.raised
              /\ info_out.result.parent \in DOMAIN blob_groups
              /\ blob_groups[info_out.result.parent].blobs
                    = PyPrefix(blobs, Longest(lengths))
              /\ info_out.result.unique_size = SizeFrom(blobs, Longest(lengths) + 1)

\* a group of three digests with two registered proper prefixes was queried
C1_Witness ==
    /\ info_out # <<>>
    /\ Len(blob_groups[info_out.key].blobs) = 3
    /\ Cardinality(ParentLengths(blob_groups[info_out.key].blobs)) >= 2
    /\ info_out.result.parent # NoneKey

\* C2: when no proper prefix of a registered group G of n >= 1 digests is
\* registered, _get_blob_group_info(G) returns no parent and the sum of the
\* sizes of all n digests, each position counted once.
C2_NoParentSumsAll ==
    info_out # <<>> =>
        LET blobs == blob_groups[info_out.key].blobs
        IN (Len(blobs) >= 1 /\ ParentLengths(blobs) = {}) =>
              info_out.result = Returned(SizeFrom(blobs, 1), NoneKey)

\* C7: two digest lists have the same key if and only if they are the same
\* list, element by element and in order.
C7_KeyInjective ==
    key_out # <<>> => ((key_out[1] = key_out[2]) <=> (key_in[1] = key_in[2]))

\* the keys of a list and of a permutation of it were computed
C7_Witness ==
    /\ key_out # <<>>
    /\ key_in[1] = <<"sha256:base", "sha256:layerX">>
    /\ key_in[2] = <<"sha256:layerX", "sha256:base">>
    /\ key_out[1] # key_out[2]

KeyBase == get_blob_group_key(<<"sha256:base">>)
KeyBaseLayerX == get_blob_group_key(<<"sha256:base", "sha256:layerX">>)

\* C3: for one image with the tags [base] and [base, layerX], a successful
\* get_stats ends with exactly these two groups, [base] of unique size
\* size(base) without parent, [base, layerX] of unique size size(layerX)
\* with parent [base], and the grand total size(base) + size(layerX).
C3_EndToEnd ==
    (registry = EndToEnd /\ pc = "done") =>
        /\ DOMAIN blob_groups = {KeyBase, KeyBaseLayerX}
        /\ report[KeyBase] = Returned(BlobSize("sha256:base"), NoneKey)
        /\ report[KeyBaseLayerX] = Returned(BlobSize("sha256:layerX"), KeyBase)
        /\ total_blob_size = BlobSize("sha256:base") + BlobSize("sha256:layerX")

\* the blob jobs for blob_sum in blob_pool's queue or at their await
InFlight(blob_sum) ==
    {job \in Range(blob_queue) \cup blob_running : job.blob_sum = blob_sum}

\* the image-tag jobs suspended in blob_pool.push of a job for blob_sum
Pushing(blob_sum) ==
    {rec \in img_running :
        rec.at = "push" /\ Layers(registry[rec.job].manifest)[rec.i] = blob_sum}

\* C4: in every state of a scan there is, for every digest, at most one blob
\* job queued, running or being pushed.
C4_SingleFlight ==
    \A d \in Digests : Cardinality(InFlight(d)) + Cardinality(Pushing(d)) <= 1

\* two (image, tag) jobs have gone through a digest whose one blob job is
\* still in flight
C4_Witness ==
    \E d \in Digests :
        /\ Cardinality(InFlight(d)) = 1
        /\ Cardinality(BlobEntry(blob_to_image_tags, d).usage) >= 2

\* C5: get_blob_info is called at most once for every digest in one run of
\* get_stats, also when a fetch fails.
C5_FetchOnce == \A d \in Digests : fetches[d] <= 1

\* C6: when aggregation starts no job of either pool is queued or running,
\* and every digest of every registered group has its info.
C6_Barrier ==
    pc \in {"aggregate", "done"} =>
        /\ img_queue = <<>> /\ img_running = {}
        /\ blob_queue = <<>> /\ blob_running = {}
        /\ \A k \in DOMAIN blob_groups :
              \A d \in Range(blob_groups[k].blobs) :
                  BlobEntry(blob_to_image_tags, d).info # None

\* aggregation starts after blob jobs fetched the infos of two groups
C6_Witness ==
    /\ pc = "aggregate"
    /\ Cardinality(DOMAIN blob_groups) >= 2
    /\ \E d \in Digests : fetches[d] >= 1

\* the step runs lines 187-219 for the job j
Registers(j) ==
    \/ /\ ImgStart
       /\ Head(img_queue) = j
       /\ j \notin {rec.job : rec \in img_running'}
    \/ \E rec \in img_running : rec.job = j /\ ManifestOk(rec)

\* C8: a job whose manifest resolves to a registered digest sequence creates
\* no group, leaves the group's blobs and the grand total as they are, pushes
\* no blob job for a digest whose info is populated, and adds at most its
\* (image, tag) pair to the image index, the group's images and the usages.
C8_Idempotent ==
    [][\A j \in 1..Len(registry) :
        LET e == registry[j]
            k == get_blob_group_key(Layers(e.manifest))
        IN (Registers(j) /\ k \in DOMAIN blob_groups) =>
              /\ DOMAIN blob_groups' = DOMAIN blob_groups
              /\ blob_groups'[k].blobs = blob_groups[k].blobs
              /\ blob_groups'[k].images \subseteq
                    blob_groups[k].images \cup {<<e.image_name, e.tag>>}
              /\ image_info' \subseteq image_info \cup {<<e.image_name, k, e.tag>>}
              /\ total_blob_size' = total_blob_size
              /\ \A job \in Range(blob_queue') \ Range(blob_queue) :
                    BlobEntry(blob_to_image_tags, job.blob_sum).info = None
              /\ \A d \in DOMAIN blob_to_image_tags' :
                    blob_to_image_tags'[d].usage \subseteq
                       BlobEntry(blob_to_image_tags, d).usage
                          \cup {<<e.image_name, e.tag>>}
      ]_vars

\* C9: the info of a digest is written at most once in a scan.
C9_InfoWrittenOnce == \A d \in Digests : info_writes[d] <= 1

RECURSIVE InfoSizes(_)
InfoSizes(S) ==
    IF S = {} THEN 0
    ELSE LET d == CHOOSE x \in S : TRUE
         IN blob_to_image_tags[d].info.size + InfoSizes(S \ {d})

\* C10: when a successful get_stats aggregates, the grand total is the sum
\* of the sizes of the digests of the blob usage index, each counted once.
C10_TotalCountsOnce ==
    pc \in {"aggregate", "done"} =>
        total_blob_size = InfoSizes(DOMAIN blob_to_image_tags)

\* C11: once a job of either pool has failed, get_stats never reaches the
\* aggregation: it is in the pool scope or has raised out of it, and no
\* image chart and no root chart is written.
C11_NoPartialResults ==
    (img_exceptions \/ blob_exceptions) =>
        /\ pc \in {"push", "join_img", "join_blob", "raised"}
        /\ report = <<>>
        /\ img_data = <<>>
        /\ g_data = <<>>

\* get_stats raised after an image-tag job failed and another one registered
\* its group and had its blobs fetched
C11_Witness ==
    /\ pc = "raised"
    /\ img_exceptions
    /\ ~blob_exceptions
    /\ blob_groups # <<>>
    /\ total_blob_size > 0

\* the positions of the event in the log of a job
Events(log, event) == {n \in 1..Len(log) : log[n] = event}

\* C16: a job calls get_image_manifest at most twice; a first response of
\* None is followed by exactly one more call; when the second response is a
\* manifest the job goes on to register its group, and when it is None again
\* the job fails and registers nothing.
C16_ManifestRetryOnce ==
    \A j \in 1..Len(registry) :
        LET log == job_log[j]
            e == registry[j]
        IN /\ Cardinality(Events(log, "call")) <= 2
           /\ (Len(log) >= 2 /\ log[2] = "None") => (Len(log) >= 3 /\ log[3] = "call")
           /\ (Len(log) >= 4 /\ log[2] = "None" /\ log[4] = "manifest") =>
                 (Len(log) = 5 /\ log[5] = "registered")
           /\ Cardinality(Events(log, "None")) = 2 =>
                 /\ log = <<"call", "None", "call", "None">>
                 /\ img_exceptions
                 /\ j \notin {rec.job : rec \in img_running}
                 /\ (\A i \in 1..Len(registry) :
                        (registry[i].image_name = e.image_name /\ registry[i].tag = e.tag)
                           => Events(job_log[i], "registered") = {})
                    => \A t \in image_info : ~(t[1] = e.image_name /\ t[3] = e.tag)

\* one job got a manifest at its second call and registered its group,
\* another one got None twice
C16_Witness ==
    \E i, j \in 1..Len(registry) :
        /\ job_log[i] = <<"call", "None", "call", "manifest", "registered">>
        /\ job_log[j] = <<"call", "None", "call", "None">>
        /\ blob_groups # <<>>

\* C17: when get_blob_info has returned the info of a blob and the write of
\* the info to the shelf fails, the blob job still assigns the info, adds its
\* size to the grand total once, and ends without an exception.
C17_CacheWriteBestEffort ==
    [][\A job \in blob_running :
        (/\ client = "RegistryClient"
         /\ blob_running' = blob_running \ {job}
         /\ BlobShelfRaises(job)) =>
              /\ BlobEntry(blob_to_image_tags', job.blob_sum).info
                    = [size |-> BlobSize(job.blob_sum)]
              /\ total_blob_size' = total_blob_size + BlobSize(job.blob_sum)
              /\ blob_exceptions' = blob_exceptions
      ]_vars

\* C18: a digest is in the in-progress set if and only if exactly one blob
\* job for it is queued or running, so that the remove of a blob job always
\* finds it; after both pools are joined the set is empty.
C18_InProgressDiscipline ==
    /\ \A d \in Digests : (d \in inprogress_blobs) <=> (Cardinality(InFlight(d)) = 1)
    /\ pc \in {"aggregate", "done", "raised"} => inprogress_blobs = {}

\* C18, amended: a digest is in the in-progress set if and only if exactly
\* one blob job for it is queued, running, or being pushed by an image-tag
\* job that waits for room in blob_pool's queue; the remove of a blob job
\* always finds its digest; after both pools are joined the set is empty.
C18_InProgressOrPushed ==
    /\ \A d \in Digests :
          (d \in inprogress_blobs)
             <=> (Cardinality(InFlight(d)) + Cardinality(Pushing(d)) = 1)
    /\ \A job \in Range(blob_queue) \cup blob_running : job.blob_sum \in inprogress_blobs
    /\ pc \in {"aggregate", "done", "raised"} => inprogress_blobs = {}

\* a digest is marked while the push of its blob job waits for room in the
\* queue, other blob jobs having failed and succeeded before
C18_Witness ==
    \E d \in Digests :
        /\ d \in inprogress_blobs
        /\ InFlight(d) = {}
        /\ Cardinality(Pushing(d)) = 1
        /\ blob_exceptions
        /\ total_blob_size > 0

\* what a scan of the registry that runs one job after the other ends with:
\* its groups, the info of its digests, the result of _get_blob_group_info
\* for each group, each image's sum of them, and the sum of the sizes of
\* the digests
ScanKeys == {get_blob_group_key(Layers(registry[j].manifest)) : j \in 1..Len(registry)}
ScanGroups ==
    [k \in ScanKeys |->
        [blobs |-> Layers(registry[CHOOSE j \in 1..Len(registry) :
                             get_blob_group_key(Layers(registry[j].manifest)) = k].manifest)]]
ScanDigests == UNION {Range(ScanGroups[k].blobs) : k \in ScanKeys}
ScanInfos == [d \in ScanDigests |-> [info |-> [size |-> BlobSize(d)], usage |-> {}]]
ScanReport == [k \in ScanKeys |-> get_blob_group_info(ScanGroups, ScanInfos, k)]

RECURSIVE Sum(_, _)
Sum(f, S) ==
    IF S = {} THEN 0
    ELSE LET x == CHOOSE y \in S : TRUE IN f[x] + Sum(f, S \ {x})

ScanImageTotal(image_name) ==
    Sum([k \in ScanKeys |-> ScanReport[k].unique_size],
        {get_blob_group_key(Layers(registry[j].manifest)) :
            j \in {i \in 1..Len(registry) : registry[i].image_name = image_name}})
ScanTotal == Sum([d \in ScanDigests |-> BlobSize(d)], ScanDigests)

\* C19: a successful get_stats ends, whatever the interleaving of its jobs,
\* with the groups, the parent and unique size of each group, the total of
\* each image and the grand total that the registry's content determines.
C19_OrderIndependent ==
    pc = "done" =>
        /\ DOMAIN blob_groups = ScanKeys
        /\ \A k \in ScanKeys : blob_groups[k].blobs = ScanGroups[k].blobs
        /\ report = ScanReport
        /\ \A row \in Range(g_data) :
              IF row.name = "root" THEN row.size = ScanTotal
              ELSE row.size = ScanImageTotal(row.name)
        /\ total_blob_size = ScanTotal

\* the labels new_instance can give a group
LabelsOf(blob_group_key) ==
    {get_blob_group_name(blob_group_key, tag_order) \o "_" \o ToString(g_inst) :
        tag_order \in Orders({registry[j].tag : j \in 1..Len(registry)}),
        g_inst \in 0..(2 * Len(registry))}

\* C20: for every group G of an image that has a parent group P, the chart
\* of the image has the row (label of G, label of P, unique size of G), and
\* every row of G's node carries G's unique size.
C20_ReportEdges ==
    pc = "done" =>
        \A image_name \in DOMAIN img_data :
            \A k \in Range(KeysOf(image_name)) :
                report[k].parent # NoneKey =>
                    /\ \E row \in Range(img_data[image_name]) :
                          /\ row.name \in LabelsOf(k)
                          /\ row.parent \in LabelsOf(report[k].parent)
                          /\ row.size = report[k].unique_size
                    /\ \A row \in Range(img_data[image_name]) :
                          row.name \in LabelsOf(k) => row.size = report[k].unique_size

\* the items of the pages, in order
RECURSIVE AllItems(_)
AllItems(pages) ==
    IF pages = <<>> THEN <<>> ELSE Head(pages).items \o AllItems(Tail(pages))

\* C12: an iteration of a _Pager over pages of items ends only when the page
\* at hand is empty and has no continuation cursor, having yielded the items
\* of all pages in order, each once, and having requested a page only when
\* no item was buffered.
C12_PagerCompleteness ==
    (/\ source.kind = "_Pager"
     /\ \A n \in 1..Len(source.pages) : source.pages[n].has_key
     /\ iteration.ended = "stop") =>
        /\ iteration.yielded = AllItems(source.pages)
        /\ \A n \in 1..Len(iteration.requests) : iteration.requests[n].buffered = 0
        /\ pager.batch.items = <<>>
        /\ pager.next = NoUrl

\* C13: over a source whose only page has no items and no cursor, every
\* __anext__ of a _Pager signals the end of the sequence, nothing is yielded
\* and nothing else raised, and one request, of the first page, is made in
\* the whole iteration.
C13_EmptyFirstPage ==
    (/\ source.kind = "_Pager"
     /\ source.pages = <<Page(<<>>)>>
     /\ iteration.calls >= 1
     /\ iteration.ended # "request raised") =>
        /\ iteration.ended = "stop"
        /\ iteration.yielded = <<>>
        /\ iteration.requests = <<[url |-> FirstUrl, buffered |-> 0]>>

\* __anext__ was called three times on the pager of such a source
C13_Witness ==
    /\ source.kind = "_Pager"
    /\ source.pages = <<Page(<<>>)>>
    /\ iteration.calls = 3
    /\ iteration.after = 2
    /\ iteration.ended = "stop"

\* the images whose tag list is answered with NAME_UNKNOWN
NotFoundImages ==
    {image_name \in DOMAIN served.tags :
        served.tags[image_name][1] = ErrorPage("NAME_UNKNOWN")}

\* the (image, tag) of the images, image by image
RECURSIVE TagsOf(_)
TagsOf(image_names) ==
    IF image_names = <<>> THEN <<>>
    ELSE LET tags == AllItems(served.tags[Head(image_names)])
         IN [n \in 1..Len(tags) |-> <<Head(image_names), tags[n]>>]
            \o TagsOf(Tail(image_names))

\* C14: when the tag list of an image is answered with NAME_UNKNOWN, the
\* first __anext__ of its tag pager and every later one signal the end of
\* the sequence without a request; get_stats pushes no job for the image,
\* does not raise over it, and goes on with the catalog: when it leaves the
\* loops it has pushed the tags of the other images, in order.
C14_NotFoundIsEmpty ==
    /\ \A t \in Range(driver.pushed) : t[1] \notin NotFoundImages
    /\ (driver.image_name \in NotFoundImages /\ driver.tag_pager.batch # None) =>
          /\ driver.at \in {"catalog", "left", "request raised"}
          /\ PagerAnext(driver.tag_pager, served.tags[driver.image_name], TRUE)
                = Stop(driver.tag_pager, NoUrl)
    /\ driver.at = "left" => driver.pushed = TagsOf(AllItems(served.catalog))

\* get_stats has left the loops: the first image's tag list was answered
\* with NAME_UNKNOWN and the tags of the second were pushed
C14_Witness ==
    /\ driver.at = "left"
    /\ AllItems(served.catalog) = <<"app", "lib">>
    /\ NotFoundImages = {"app"}
    /\ driver.pushed = <<<<"lib", "v1">>, <<"lib", "v2">>>>

\* what "async for" over a pager yields from its fields p on
RECURSIVE Iterate(_, _, _)
Iterate(src, p, yielded) ==
    LET r == Anext(src, p)
    IN IF r.kind = "yield" THEN Iterate(src, r.pager, Append(yielded, r.item))
       ELSE yielded

\* what the first iteration of a new pager over the source yields
FirstIteration(src) ==
    Iterate(src, IF src.kind = "_Pager" THEN Aiter(NewPager) ELSE S3Aiter(NewS3Pager), <<>>)

\* C15: an iteration that follows another one on the same pager, _Pager or
\* _S3Pager, starts with the first page and yields, up to its end, what the
\* first iteration of a new pager over the source yields.
C15_PagerRestart ==
    (iteration.no >= 2 /\ iteration.ended = "stop" /\ iteration.after = 0) =>
        /\ iteration.yielded = FirstIteration(source)
        /\ iteration.requests # <<>> => iteration.requests[1].url = FirstUrl

\* C21: the node names new_instance has produced are pairwise distinct, for
\* any sequence of requests: a display text asked for again, and display
\* texts that end in "_<number>"
C21_UniqueNodeNames ==
    \A i, j \in 1..Len(node_names) :
        i # j => node_names[i].label # node_names[j].label

\* a text asked for twice, then the texts its two node names spell
C21_Witness ==
    /\ Len(node_names) = 4
    /\ node_names[1].name = "app:{'v1'}"
    /\ node_names[2].name = "app:{'v1'}"
    /\ node_names[2].label = "app:{'v1'}_1"
    /\ node_names[3].name = "app:{'v1'}_1"
    /\ node_names[4].name = "app:{'v1'}_0"
    /\ node_names[4].label = "app:{'v1'}_0_0"

\* C23: at every suspension point a tag is in the image index under
\* (image, key) exactly when it is in the images of the group of that key,
\* and every key of the image index is a registered group whose blobs give
\* that key
C23_IndexConsistent ==
    /\ \A t \in image_info :
          /\ t[2] \in DOMAIN blob_groups
          /\ <<t[1], t[3]>> \in blob_groups[t[2]].images
          /\ get_blob_group_key(blob_groups[t[2]].blobs) = t[2]
    /\ \A k \in DOMAIN blob_groups :
          \A p \in blob_groups[k].images : <<p[1], k, p[2]>> \in image_info

\* a group that two tags of different images point at, while jobs are
\* suspended in both pools
C23_Witness ==
    /\ \E k \in DOMAIN blob_groups :
          \E p, q \in blob_groups[k].images : p[1] # q[1]
    /\ img_running # {}
    /\ blob_running # {}

\* C24: called on a registered group with no digests (a manifest without
\* layers), _get_blob_group_info returns unique size 0 and no parent, and does
\* not raise
C24_EmptyGroup ==
    (info_out # <<>> /\ info_out.key \in DOMAIN blob_groups) =>
        (blob_groups[info_out.key].blobs = <<>> =>
            info_out.result = Returned(0, NoneKey))

\* the job j of image_tag_pool waits in blob_pool.push
PushBlocked(j) == \E rec \in img_running : rec.job = j /\ rec.at = "push"

\* the driver waits in image_tag_pool.push
DriverBlocked ==
    pc = "push" /\ next_tag <= Len(registry) /\ Len(img_queue) >= QueueCap

\* the "async with" of lines 102-112 has been left
ScopeLeft == pc \in {"aggregate", "raised"}

\* C22: with a finite registry and requests that return or raise, get_stats
\* leaves the pool scope for good, for pools of one worker and more: from some
\* point on the scope is left, the driver does not wait to push into a full
\* image-tag pool and no job waits to push into a full blob pool, so every
\* such wait has ended
C22_PipelineTerminates ==
    <>[](/\ ScopeLeft
         /\ ~DriverBlocked
         /\ \A j \in 1..Len(registry) : ~PushBlocked(j))

\* pools of one worker: the first job waits to push its second blob job
\* while the driver waits to push the second job
C22_Witness ==
    /\ num_workers = 1
    /\ PushBlocked(1)
    /\ Len(blob_queue) = QueueCap
    /\ DriverBlocked

====
